---- MODULE Spec2Model ----
(***************************************************************************)
(* Verification model of the depth-estimation core of food_volume_estimation *)
(* (src/code/custom_modules.py) and of the custom-object registry used by   *)
(* src/food_volume_estimation_app.py and src/code/model_tests.py.           *)
(*                                                                         *)
(* Tensor arithmetic is modelled over exact rationals [n |-> _, d |-> _]   *)
(* kept in lowest terms with d > 0, so structural equality is numerical    *)
(* equality.  Floating-point rounding is outside the model.                *)
(***************************************************************************)
EXTENDS Integers, Sequences, FiniteSets

VARIABLES
    idn,        \* the InverseDepthNormalization instance (its fields)
    idn_x,      \* last input given to InverseDepthNormalization.call, or None
    idn_out,    \* last value returned by an InverseDepthNormalization method
    pl,         \* the ProjectionLayer instance (its fields), or how __init__ ended
    pl_arg,     \* the intrinsics_mat argument given to ProjectionLayer.__init__
    pl_in,      \* the inputs [source_img, depth_map, pose] presented to the layer
    pl_out,     \* last value returned by a ProjectionLayer method
    y_true,     \* first argument of a Keras-style loss function
    y_pred,     \* second argument of a Keras-style loss function
    loss_cfg,   \* [alpha, masking] given to Losses.reprojection_loss
    loss_out,   \* last value returned by a loss function
    sm_img,     \* y_true of the depth smoothness loss: the target image
    sm_pred,    \* y_pred of the depth smoothness loss: the predicted disparity
    sm_out,     \* value returned by the depth smoothness loss
    reg_arch,   \* class names referenced by the persisted architecture file
    app,        \* the serving process (food_volume_estimation_app.py run as a script)
    mt,         \* the model-testing process (model_tests.py run as a script)
    handlers    \* the /predict requests in progress, one per server thread

idnVars == <<idn, idn_x, idn_out>>

plVars == <<pl, pl_arg, pl_in, pl_out>>

lossVars == <<y_true, y_pred, loss_cfg, loss_out>>

smVars == <<sm_img, sm_pred, sm_out>>

regVars == <<reg_arch, app, mt>>

servVars == <<handlers>>

vars == <<idn, idn_x, idn_out, pl, pl_arg, pl_in, pl_out,
          y_true, y_pred, loss_cfg, loss_out, sm_img, sm_pred, sm_out,
          reg_arch, app, mt, handlers>>

(***************************************************************************)
(* Bounds                                                                  *)
(***************************************************************************)
\* Raw disparities fed to the normalizer are k / DispSteps, k in 0..DispSteps.
DispSteps == 4
\* Configured depths are n / d with n in 1..MaxDepthNum, d in DepthDens.
MaxDepthNum == 3
\* Frames and depth maps are ImgH x ImgW pixels.
ImgH == 2
ImgW == 2
\* Entries of candidate intrinsics matrices range over 0..MaxFocal.
MaxFocal == 2

\* Python's None, as a record so that it compares with any other stored value.
None == [none |-> TRUE]

(***************************************************************************)
(* Exact rational arithmetic                                               *)
(***************************************************************************)
RECURSIVE GCD(_, _)
GCD(a, b) == IF b = 0 THEN a ELSE GCD(b, a % b)

IAbs(a) == IF a < 0 THEN -a ELSE a

\* n / d in lowest terms, d # 0.
Rat(n, d) ==
    IF n = 0 THEN [n |-> 0, d |-> 1]
    ELSE LET g == GCD(IAbs(n), IAbs(d))
             s == IF d < 0 THEN -1 ELSE 1
         IN  [n |-> s * (n \div g), d |-> s * (d \div g)]

RInt(k) == [n |-> k, d |-> 1]
RZero == RInt(0)
ROne == RInt(1)

RNeg(a) == [n |-> -a.n, d |-> a.d]

RAdd(a, b) ==
    IF a.n = 0 THEN b
    ELSE IF b.n = 0 THEN a
    ELSE IF a.d = b.d THEN Rat(a.n + b.n, a.d)
    ELSE LET g == GCD(a.d, b.d)
         IN  Rat(a.n * (b.d \div g) + b.n * (a.d \div g), (a.d \div g) * b.d)

RSub(a, b) == RAdd(a, RNeg(b))

\* Cross-cancel before multiplying, so intermediate products stay small.
RMul(a, b) ==
    IF a.n = 0 \/ b.n = 0 THEN RZero
    ELSE IF a.d = 1 /\ b.d = 1 THEN [n |-> a.n * b.n, d |-> 1]
    ELSE LET g1 == IF b.d = 1 THEN 1 ELSE GCD(IAbs(a.n), b.d)
             g2 == IF a.d = 1 THEN 1 ELSE GCD(IAbs(b.n), a.d)
         IN  [n |-> (a.n \div g1) * (b.n \div g2),
              d |-> (a.d \div g2) * (b.d \div g1)]

\* Defined only for b # 0 (a division by zero raises in the program).
RInv(b) == IF b.n < 0 THEN [n |-> -b.d, d |-> -b.n] ELSE [n |-> b.d, d |-> b.n]

RDiv(a, b) == RMul(a, RInv(b))

RAbs(a) == [n |-> IAbs(a.n), d |-> a.d]

\* a < b for non-negative fractions p/q, r/s, by continued-fraction descent
\* (no cross products, so no overflow of the evaluator's integers).
RECURSIVE FracLt(_, _, _, _)
FracLt(p, q, r, s) ==
    LET qa == p \div q
        qb == r \div s
        ra == p % q
        rb == r % s
    IN  IF qa # qb THEN qa < qb
        ELSE IF rb = 0 THEN FALSE
        ELSE IF ra = 0 THEN TRUE
        ELSE FracLt(s, rb, q, ra)

RLt(a, b) ==
    IF a.n < 0 /\ b.n >= 0 THEN TRUE
    ELSE IF a.n >= 0 /\ b.n < 0 THEN FALSE
    ELSE IF a.n >= 0 THEN FracLt(a.n, a.d, b.n, b.d)
    ELSE FracLt(-b.n, b.d, -a.n, a.d)

RLe(a, b) == ~RLt(b, a)

RMin(a, b) == IF RLt(b, a) THEN b ELSE a

RMax(a, b) == IF RLt(a, b) THEN b ELSE a

(***************************************************************************)
(* InverseDepthNormalization  (custom_modules.py:76-103)                   *)
(***************************************************************************)
DepthDens == {1, 10, 100}

DepthChoices == {Rat(n, d) : n \in 1..MaxDepthNum, d \in DepthDens}

Disparities == {Rat(k, DispSteps) : k \in 0..DispSteps}

\* __init__: stores the bounds and derives the disparity range.
IDN_init_swapped(min_depth, max_depth) ==
    [min_depth |-> min_depth, max_depth |-> max_depth,
     min_disp |-> RDiv(ROne, min_depth), max_disp |-> RDiv(ROne, max_depth)]

IDN_init(min_depth, max_depth) ==
    [min_depth |-> min_depth, max_depth |-> max_depth,
     min_disp |-> RDiv(ROne, max_depth), max_disp |-> RDiv(ROne, min_depth)]

\* call, elementwise on one disparity x: affine map into the disparity range,
\* then the reciprocal.
IDN_call_no_offset(self, x) ==
    RDiv(ROne, RAdd(self.min_disp, RMul(self.max_disp, x)))

IDN_call(self, x) ==
    LET normalized_disp ==
            RAdd(self.min_disp, RMul(RSub(self.max_disp, self.min_disp), x))
        depth_map == RDiv(ROne, normalized_disp)
    IN  depth_map

IDN_get_config(self) ==
    [min_depth |-> self.min_depth, max_depth |-> self.max_depth]

(***************************************************************************)
(* Tensors: an image is a sequence of rows, a row a sequence of pixels, a  *)
(* pixel a sequence of channel values (one sample; the batch axis, over    *)
(* which every operation acts independently, is left out).                 *)
(***************************************************************************)
Height(img) == Len(img)
Width(img) == Len(img[1])
Channels(img) == Len(img[1][1])
Shape(img) == <<Height(img), Width(img), Channels(img)>>

\* Frames slice three channels out of y_pred (custom_modules.py:118-121).
NumChannels == 3

\* Pixel intensities are multiples of PixelUnit (dark frames keep the SSIM
\* fractions within the evaluator's integers).
PixelUnit == Rat(1, 100)

FramePatterns == {"zero", "cols", "checker", "dot", "tint"}

PatternLevel(pat, i, j, ch) ==
    CASE pat = "zero" -> 0
      [] pat = "cols" -> (j - 1) % 2
      [] pat = "checker" -> (i + j) % 2
      [] pat = "dot" -> IF i = 1 /\ j = 1 THEN 1 ELSE 0
      [] pat = "tint" -> IF ch = 1 THEN (i + j + 1) % 2 ELSE 0

Frame(pat) ==
    [i \in 1..ImgH |-> [j \in 1..ImgW |-> [ch \in 1..NumChannels |->
        RMul(RInt(PatternLevel(pat, i, j, ch)), PixelUnit)]]]

Frames == {Frame(pat) : pat \in FramePatterns}

\* Depth maps (one channel, positive): a uniform one and a column ramp.
DepthMaps ==
    {[i \in 1..ImgH |-> [j \in 1..ImgW |-> <<RInt(5)>>]],
     [i \in 1..ImgH |-> [j \in 1..ImgW |-> <<RInt(j)>>]]}

(***************************************************************************)
(* 3x3 matrices and 3-vectors over the rationals                           *)
(***************************************************************************)
MatMul(A, B) ==
    [i \in 1..3 |-> [j \in 1..3 |->
        RAdd(RAdd(RMul(A[i][1], B[1][j]), RMul(A[i][2], B[2][j])),
             RMul(A[i][3], B[3][j]))]]

MatVec(A, v) ==
    [i \in 1..3 |->
        RAdd(RAdd(RMul(A[i][1], v[1]), RMul(A[i][2], v[2])), RMul(A[i][3], v[3]))]

Identity3 == <<<<ROne, RZero, RZero>>, <<RZero, ROne, RZero>>, <<RZero, RZero, ROne>>>>

\* Index arithmetic of the cofactor expansion: the two indices other than i.
Others(i) == CASE i = 1 -> <<2, 3>> [] i = 2 -> <<1, 3>> [] i = 3 -> <<1, 2>>

Minor(A, i, j) ==
    LET r == Others(i)
        c == Others(j)
    IN  RSub(RMul(A[r[1]][c[1]], A[r[2]][c[2]]), RMul(A[r[1]][c[2]], A[r[2]][c[1]]))

Cofactor(A, i, j) == IF (i + j) % 2 = 0 THEN Minor(A, i, j) ELSE RNeg(Minor(A, i, j))

Det(A) ==
    RAdd(RAdd(RMul(A[1][1], Cofactor(A, 1, 1)), RMul(A[1][2], Cofactor(A, 1, 2))),
         RMul(A[1][3], Cofactor(A, 1, 3)))

\* np.linalg.inv: raises LinAlgError on a singular matrix, else the inverse.
np_linalg_inv(A) ==
    IF Det(A) = RZero THEN [raised |-> "LinAlgError"]
    ELSE [value |-> [i \in 1..3 |-> [j \in 1..3 |-> RDiv(Cofactor(A, j, i), Det(A))]]]

(***************************************************************************)
(* ProjectionLayer  (custom_modules.py:8-47)                               *)
(***************************************************************************)
\* Candidate intrinsics_mat arguments: [[fx, s, 1/2], [k, fy, 1/2], [0, 0, 1]].
\* Zero focal lengths and fx = fy = s = k give singular matrices.
IntrinsicsChoices ==
    {<<<<RInt(fx), RInt(sk), Rat(1, 2)>>,
       <<RInt(k), RInt(fy), Rat(1, 2)>>,
       <<RZero, RZero, ROne>>>> :
        fx \in 0..MaxFocal, fy \in 0..MaxFocal, sk \in {0, 1}, k \in {0, 1}}

DefaultIntrinsics ==
    <<<<ROne, RZero, Rat(1, 2)>>, <<RZero, ROne, Rat(1, 2)>>, <<RZero, RZero, ROne>>>>

\* The intrinsics_mat argument is None or [mat |-> a 3x3 matrix].
\* __init__ (lines 14-23): the matrix is stored, then inverted; a LinAlgError
\* from the inversion leaves __init__ and no instance is returned.
ProjectionLayer_init_lazy(intrinsics_mat) ==
    LET mat == IF intrinsics_mat = None THEN DefaultIntrinsics ELSE intrinsics_mat.mat
        inv == np_linalg_inv(mat)
    IN  [state |-> "constructed",
         POSE_SCALING |-> Rat(1, 100),
         intrinsics_mat |-> mat,
         intrinsics_mat_inv |-> IF "raised" \in DOMAIN inv THEN None ELSE inv.value,
         built |-> FALSE,
         intrinsics_mat_tensor |-> None,
         intrinsics_mat_inv_tensor |-> None]

ProjectionLayer_init(intrinsics_mat) ==
    LET mat == IF intrinsics_mat = None THEN DefaultIntrinsics ELSE intrinsics_mat.mat
        inv == np_linalg_inv(mat)
    IN  IF "raised" \in DOMAIN inv
        THEN [state |-> "raised", error |-> inv.raised]
        ELSE [state |-> "constructed",
              POSE_SCALING |-> Rat(1, 100),
              intrinsics_mat |-> mat,
              intrinsics_mat_inv |-> inv.value,
              built |-> FALSE,
              intrinsics_mat_tensor |-> None,
              intrinsics_mat_inv_tensor |-> None]

\* build (lines 25-28): backend variables holding copies of the two matrices.
ProjectionLayer_build_overwrites(self) ==
    [self EXCEPT !.intrinsics_mat_inv = self.intrinsics_mat,
                 !.intrinsics_mat_tensor = self.intrinsics_mat,
                 !.intrinsics_mat_inv_tensor = self.intrinsics_mat,
                 !.built = TRUE]

ProjectionLayer_build(self) ==
    [self EXCEPT !.intrinsics_mat_tensor = self.intrinsics_mat,
                 !.intrinsics_mat_inv_tensor = self.intrinsics_mat_inv,
                 !.built = TRUE]

\* compute_output_shape (lines 39-40)
ProjectionLayer_compute_output_shape(input_shape) == input_shape[1]

\* get_config (lines 42-47); the base layer's entries are left out.
ProjectionLayer_get_config(self) == [intrinsics_mat |-> self.intrinsics_mat]

(***************************************************************************)
(* Inverse warper (project.inverse_warp; its source is not part of the     *)
(* files modelled here, so it follows the design's section 4.2).           *)
(***************************************************************************)
\* A pose is <<tx, ty, tz, rx, ry, rz>>: translations as rationals, rotations
\* as rational multiples of the angle theta0 = arctan(4/3), whose sine 4/5 and
\* cosine 3/5 are rational.  Cos and Sin are given for -theta0, 0, theta0.
CosUnits(r) == IF r = RZero THEN ROne ELSE Rat(3, 5)

SinUnits(r) ==
    IF r = RZero THEN RZero ELSE IF r = ROne THEN Rat(4, 5) ELSE Rat(-4, 5)

RotX(r) ==
    <<<<ROne, RZero, RZero>>,
      <<RZero, CosUnits(r), RNeg(SinUnits(r))>>,
      <<RZero, SinUnits(r), CosUnits(r)>>>>

RotY(r) ==
    <<<<CosUnits(r), RZero, SinUnits(r)>>,
      <<RZero, ROne, RZero>>,
      <<RNeg(SinUnits(r)), RZero, CosUnits(r)>>>>

RotZ(r) ==
    <<<<CosUnits(r), RNeg(SinUnits(r)), RZero>>,
      <<SinUnits(r), CosUnits(r), RZero>>,
      <<RZero, RZero, ROne>>>>

pose_rotation(pose) == MatMul(MatMul(RotZ(pose[6]), RotY(pose[5])), RotX(pose[4]))

RFloor(a) == a.n \div a.d

Clamp(k, lo, hi) == IF k < lo THEN lo ELSE IF k > hi THEN hi ELSE k

\* Bilinear sample of img at column x, row y (0-based pixel coordinates),
\* out-of-range neighbours clamped to the edge.
bilinear_sample(img, x, y) ==
    LET x0 == RFloor(x)
        y0 == RFloor(y)
        wx1 == RSub(x, RInt(x0))
        wy1 == RSub(y, RInt(y0))
        wx0 == RSub(ROne, wx1)
        wy0 == RSub(ROne, wy1)
        cx0 == Clamp(x0, 0, Width(img) - 1) + 1
        cx1 == Clamp(x0 + 1, 0, Width(img) - 1) + 1
        cy0 == Clamp(y0, 0, Height(img) - 1) + 1
        cy1 == Clamp(y0 + 1, 0, Height(img) - 1) + 1
    IN  [ch \in 1..Channels(img) |->
            RAdd(RAdd(RMul(RMul(wx0, wy0), img[cy0][cx0][ch]),
                      RMul(RMul(wx1, wy0), img[cy0][cx1][ch])),
                 RAdd(RMul(RMul(wx0, wy1), img[cy1][cx0][ch]),
                      RMul(RMul(wx1, wy1), img[cy1][cx1][ch])))]

\* Source coordinates of target pixel (row i, column j): back-project with
\* K^-1 and the depth, apply the rigid transform, project with K.
projected_pixel(depth_map, pose, intrinsics, intrinsics_inv, i, j) ==
    LET ray == MatVec(intrinsics_inv, <<RInt(j - 1), RInt(i - 1), ROne>>)
        d == depth_map[i][j][1]
        cam == <<RMul(d, ray[1]), RMul(d, ray[2]), RMul(d, ray[3])>>
        rot == MatVec(pose_rotation(pose), cam)
        pt == <<RAdd(rot[1], pose[1]), RAdd(rot[2], pose[2]), RAdd(rot[3], pose[3])>>
        pix == MatVec(intrinsics, pt)
    IN  <<RDiv(pix[1], pix[3]), RDiv(pix[2], pix[3])>>

inverse_warp(source_img, depth_map, pose, intrinsics, intrinsics_inv) ==
    LET coords == [i \in 1..Height(depth_map) |-> [j \in 1..Width(depth_map) |->
                     projected_pixel(depth_map, pose, intrinsics, intrinsics_inv, i, j)]]
    IN  [img |-> [i \in 1..Height(depth_map) |-> [j \in 1..Width(depth_map) |->
                     bilinear_sample(source_img, coords[i][j][1], coords[i][j][2])]],
         coords |-> coords]

\* call (lines 30-37): x = [source_img, depth_map, pose]; the pose is scaled
\* by POSE_SCALING and the warped image alone is returned.
ProjectionLayer_call_no_inverse(self, x) ==
    inverse_warp(x[1], x[2], [k \in 1..6 |-> RMul(x[3][k], self.POSE_SCALING)],
                 self.intrinsics_mat_tensor, self.intrinsics_mat_tensor).img

ProjectionLayer_call(self, x) ==
    LET source_img == x[1]
        depth_map == x[2]
        pose == [k \in 1..6 |-> RMul(x[3][k], self.POSE_SCALING)]
        warped == inverse_warp(source_img, depth_map, pose,
                               self.intrinsics_mat_tensor,
                               self.intrinsics_mat_inv_tensor)
    IN  warped.img

\* Raw poses given to call: the identity, a sideways translation (0.5 after
\* scaling) and a rotation about the optical axis (theta0 after scaling).
IdentityPose == [k \in 1..6 |-> RZero]

Poses ==
    {IdentityPose,
     <<RInt(50), RZero, RZero, RZero, RZero, RZero>>,
     <<RZero, RZero, RZero, RZero, RZero, RInt(100)>>}

(***************************************************************************)
(* Losses  (custom_modules.py:106-221)                                     *)
(***************************************************************************)
\* The sum of a sequence of rationals, over their common denominator.
RECURSIVE CommonDen(_)
CommonDen(seq) ==
    IF seq = <<>> THEN 1
    ELSE LET l == CommonDen(Tail(seq))
         IN  IF l % Head(seq).d = 0 THEN l
             ELSE (l \div GCD(l, Head(seq).d)) * Head(seq).d

RECURSIVE NumSum(_, _)
NumSum(seq, den) ==
    IF seq = <<>> THEN 0
    ELSE Head(seq).n * (den \div Head(seq).d) + NumSum(Tail(seq), den)

RSum(seq) == Rat(NumSum(seq, CommonDen(seq)), CommonDen(seq))

\* y_pred[:, :, :, lo-1:hi]
SliceChannels(img, lo, hi) ==
    [i \in 1..Height(img) |-> [j \in 1..Width(img) |-> SubSeq(img[i][j], lo, hi)]]

\* The four frames concatenated along the channel axis, as the model emits them.
ConcatChannels(a, b, c, d) ==
    [i \in 1..Height(a) |-> [j \in 1..Width(a) |->
        a[i][j] \o b[i][j] \o c[i][j] \o d[i][j]]]

\* tf.pad(x, [[0,0],[ph,ph],[pw,pw],[0,0]], 'REFLECT'): mirrored about the edge
\* pixel, which is not repeated.  Needs ph < Height(x) and pw < Width(x).
ReflectIndex(k, n) == IF k < 1 THEN 2 - k ELSE IF k > n THEN 2 * n - k ELSE k

tf_pad_reflect(x, ph, pw) ==
    [i \in 1..(Height(x) + 2 * ph) |-> [j \in 1..(Width(x) + 2 * pw) |->
        x[ReflectIndex(i - ph, Height(x))][ReflectIndex(j - pw, Width(x))]]]

\* Element (i, j, ch) of tf.pad(x, [[0,0],[1,1],[1,1],[0,0]], 'REFLECT'),
\* rows and columns of the padded tensor counted from 1.
padded_at(x, i, j, ch) ==
    x[ReflectIndex(i - 1, Height(x))][ReflectIndex(j - 1, Width(x))][ch]

\* The offsets of a 3x3 window, row by row.
Window3 == <<<<0, 0>>, <<0, 1>>, <<0, 2>>, <<1, 0>>, <<1, 1>>, <<1, 2>>,
             <<2, 0>>, <<2, 1>>, <<2, 2>>>>

\* K.pool2d(pad(x), (3,3), (1,1), 'valid', pool_mode='avg') at output (i, j, ch)
pool_avg3(x, i, j, ch) ==
    RMul(Rat(1, 9),
         RSum([k \in 1..9 |->
                 padded_at(x, i + Window3[k][1], j + Window3[k][2], ch)]))

\* K.pool2d(pad(x) * pad(y), (3,3), (1,1), 'valid', pool_mode='avg') at (i, j, ch)
pool_avg3_product(x, y, i, j, ch) ==
    RMul(Rat(1, 9),
         RSum([k \in 1..9 |->
                 RMul(padded_at(x, i + Window3[k][1], j + Window3[k][2], ch),
                      padded_at(y, i + Window3[k][1], j + Window3[k][2], ch))]))

\* K.clip(v, 0, 1)
K_clip01(v) == RMax(RZero, RMin(ROne, v))

\* __ssim at one output element (lines 197-213).  ssim_n / ssim_d is evaluated
\* as the product of the two quotients (luminance term, structure term),
\* which is the same number.
ssim_element_no_c2(x, y, i, j, ch) ==
    LET c1 == Rat(1, 10000)
        c2 == Rat(9, 10000)
        mu_x == pool_avg3(x, i, j, ch)
        mu_y == pool_avg3(y, i, j, ch)
        sigma_x == RSub(pool_avg3_product(x, x, i, j, ch), RMul(mu_x, mu_x))
        sigma_y == RSub(pool_avg3_product(y, y, i, j, ch), RMul(mu_y, mu_y))
        sigma_xy == RSub(pool_avg3_product(x, y, i, j, ch), RMul(mu_x, mu_y))
        lum_n == RAdd(RMul(RInt(2), RMul(mu_x, mu_y)), c1)
        lum_d == RAdd(RAdd(RMul(mu_x, mu_x), RMul(mu_y, mu_y)), c1)
        str_n == RMul(RInt(2), sigma_xy)
        str_d == RAdd(RAdd(sigma_x, sigma_y), c2)
        ssim == RMul(RDiv(lum_n, lum_d), RDiv(str_n, str_d))
    IN  K_clip01(RMul(RSub(ROne, ssim), Rat(1, 2)))

ssim_element(x, y, i, j, ch) ==
    LET c1 == Rat(1, 10000)
        c2 == Rat(9, 10000)
        mu_x == pool_avg3(x, i, j, ch)
        mu_y == pool_avg3(y, i, j, ch)
        sigma_x == RSub(pool_avg3_product(x, x, i, j, ch), RMul(mu_x, mu_x))
        sigma_y == RSub(pool_avg3_product(y, y, i, j, ch), RMul(mu_y, mu_y))
        sigma_xy == RSub(pool_avg3_product(x, y, i, j, ch), RMul(mu_x, mu_y))
        lum_n == RAdd(RMul(RInt(2), RMul(mu_x, mu_y)), c1)
        lum_d == RAdd(RAdd(RMul(mu_x, mu_x), RMul(mu_y, mu_y)), c1)
        str_n == RAdd(RMul(RInt(2), sigma_xy), c2)
        str_d == RAdd(RAdd(sigma_x, sigma_y), c2)
        ssim == RMul(RDiv(lum_n, lum_d), RDiv(str_n, str_d))
    IN  K_clip01(RMul(RSub(ROne, ssim), Rat(1, 2)))

\* Losses.__ssim (lines 190-213): the padded tensors are Height(x) + 2 by
\* Width(x) + 2, and 'valid' 3x3 pooling takes 2 off each.
Losses_ssim(x, y) ==
    [i \in 1..((Height(x) + 2) - 2) |-> [j \in 1..((Width(x) + 2) - 2) |->
        [ch \in 1..Channels(x) |-> ssim_element(x, y, i, j, ch)]]]

\* The tensor operations below are elementwise; they are given at one pixel
\* (i, j) and channel ch, and the loss map is assembled over the target's grid.

\* K.mean(K.abs(a - b), axis=-1, keepdims=True) at pixel (i, j)
mean_abs_diff(a, b, i, j) ==
    RMul(Rat(1, Channels(a)),
         RSum([ch \in 1..Channels(a) |-> RAbs(RSub(a[i][j][ch], b[i][j][ch]))]))

\* K.minimum(a, b)
K_minimum_first(a, b) == a

K_minimum(a, b) == RMin(a, b)

\* alpha * ssim + (1 - alpha) * mae (lines 136-137 and 151-152); the
\* one-channel mae is broadcast over the channels of ssim.
blend_loss_missing_parens(alpha, min_ssim, min_mae) ==
    RSub(RAdd(RMul(alpha, min_ssim), ROne), RMul(alpha, min_mae))

blend_loss(alpha, min_ssim, min_mae) ==
    RAdd(RMul(alpha, min_ssim), RMul(RSub(ROne, alpha), min_mae))

apply_mask_less_equal(reprojection_loss, source_loss) ==
    RMul(reprojection_loss,
         IF RLe(reprojection_loss, source_loss) THEN ROne ELSE RZero)

\* reprojection_loss *= K.cast(K.less(reprojection_loss, source_loss), 'float32')
apply_mask(reprojection_loss, source_loss) ==
    RMul(reprojection_loss,
         IF RLt(reprojection_loss, source_loss) THEN ROne ELSE RZero)

\* reprojection_loss(alpha, masking) applied to (y_true, y_pred)  (lines 117-156)
reprojection_loss_keras(alpha, masking, yt, yp) ==
    LET prev_frame == SliceChannels(yp, 1, 3)
        next_frame == SliceChannels(yp, 4, 6)
        reprojection_prev == SliceChannels(yp, 7, 9)
        reprojection_next == SliceChannels(yp, 10, 12)
        reprojection_prev_ssim == Losses_ssim(yt, reprojection_prev)
        reprojection_next_ssim == Losses_ssim(yt, reprojection_next)
        prev_ssim == Losses_ssim(yt, prev_frame)
        next_ssim == Losses_ssim(yt, next_frame)
    IN  [i \in 1..Height(yt) |-> [j \in 1..Width(yt) |-> [ch \in 1..Channels(yt) |->
            LET reprojection_loss ==
                    blend_loss(alpha,
                        K_minimum(reprojection_prev_ssim[i][j][ch],
                                  reprojection_next_ssim[i][j][ch]),
                        K_minimum(mean_abs_diff(yt, reprojection_prev, i, j),
                                  mean_abs_diff(yt, reprojection_next, i, j)))
                source_loss ==
                    blend_loss(alpha,
                        K_minimum(prev_ssim[i][j][ch], next_ssim[i][j][ch]),
                        K_minimum(mean_abs_diff(yt, prev_frame, i, j),
                                  mean_abs_diff(yt, next_frame, i, j)))
            IN  IF masking THEN apply_mask(reprojection_loss, source_loss)
                ELSE reprojection_loss]]]

(***************************************************************************)
(* Losses.depth_smoothness                                                 *)
(*                                                                         *)
(* exp(-g) is irrational for rational g # 0, so a weighted value is kept   *)
(* symbolically as a term coef * e^(-exp), and a sum of terms as the set   *)
(* of its terms with one non-zero coefficient per exponent.  The numbers   *)
(* e^(-g) for distinct rationals g are linearly independent over the       *)
(* rationals, so two such sums are equal exactly when the sets are equal,  *)
(* and a sum is 0 exactly when its set is empty.                           *)
(***************************************************************************)
\* The 1e-7 added to the mean disparity.
SmoothEpsilon == Rat(1, 10000000)

\* The elements of a tensor as one sequence, row by row.
Flatten(img) ==
    LET W == Width(img)
        C == Channels(img)
    IN  [k \in 1..(Height(img) * W * C) |->
            img[((k - 1) \div (W * C)) + 1][(((k - 1) \div C) % W) + 1][((k - 1) % C) + 1]]

\* tf.reduce_mean(x, axis=[1,2,3]) of one sample.
tf_reduce_mean(img) ==
    RDiv(RSum(Flatten(img)), RInt(Height(img) * Width(img) * Channels(img)))

Losses_gradient_x_sum(img) ==
    [i \in 1..Height(img) |-> [j \in 1..(Width(img) - 1) |->
        [ch \in 1..Channels(img) |-> RAdd(img[i][j][ch], img[i][j + 1][ch])]]]

\* img[:, :, :-1, :] - img[:, :, 1:, :]
Losses_gradient_x(img) ==
    [i \in 1..Height(img) |-> [j \in 1..(Width(img) - 1) |->
        [ch \in 1..Channels(img) |-> RSub(img[i][j][ch], img[i][j + 1][ch])]]]

\* img[:, :-1, :, :] - img[:, 1:, :, :]
Losses_gradient_y(img) ==
    [i \in 1..(Height(img) - 1) |-> [j \in 1..Width(img) |->
        [ch \in 1..Channels(img) |-> RSub(img[i][j][ch], img[i + 1][j][ch])]]]

\* y_pred / (tf.reduce_mean(y_pred, axis=[1,2,3], keepdims=True) + 1e-7)
normalize_by_mean(yp) ==
    LET denom == RAdd(tf_reduce_mean(yp), SmoothEpsilon)
    IN  [i \in 1..Height(yp) |-> [j \in 1..Width(yp) |->
            [ch \in 1..Channels(yp) |-> RDiv(yp[i][j][ch], denom)]]]

mean_abs_channels_sum(grad, i, j) ==
    RSum([ch \in 1..Channels(grad) |-> RAbs(grad[i][j][ch])])

\* tf.reduce_mean(tf.abs(grad), 3, keepdims=True) at pixel (i, j)
mean_abs_channels(grad, i, j) ==
    RDiv(RSum([ch \in 1..Channels(grad) |-> RAbs(grad[i][j][ch])]),
         RInt(Channels(grad)))

\* tf.exp(-tf.reduce_mean(tf.abs(image_grad), 3, keepdims=True)): one channel
\* holding the term 1 * e^(-g).
edge_weights(image_grad) ==
    [i \in 1..Height(image_grad) |-> [j \in 1..Width(image_grad) |->
        <<[coef |-> ROne, exp |-> mean_abs_channels(image_grad, i, j)]>>]]

\* tf.abs(depth_grad * weights): the one weight channel is broadcast over the
\* channels of the gradient, and e^(-g) > 0.
abs_weighted(depth_grad, weights) ==
    [i \in 1..Height(depth_grad) |-> [j \in 1..Width(depth_grad) |->
        [ch \in 1..Channels(depth_grad) |->
            [coef |-> RAbs(RMul(depth_grad[i][j][ch], weights[i][j][1].coef)),
             exp |-> weights[i][j][1].exp]]]]

ExpZero == {}

ExpCoef(p, g) ==
    IF \E t \in p : t.exp = g THEN (CHOOSE t \in p : t.exp = g).coef ELSE RZero

ExpAdd(p, q) ==
    LET exps == {t.exp : t \in p \cup q}
        sums == {[coef |-> RAdd(ExpCoef(p, g), ExpCoef(q, g)), exp |-> g] : g \in exps}
    IN  {t \in sums : t.coef # RZero}

\* tf.reduce_mean over every element of a tensor of terms.
reduce_mean_terms(img) ==
    LET terms == Flatten(img)
        N == Len(terms)
        exps == {terms[k].exp : k \in 1..N}
        coefAt(g) == RDiv(RSum([k \in 1..N |->
                        IF terms[k].exp = g THEN terms[k].coef ELSE RZero]), RInt(N))
        sums == {[coef |-> coefAt(g), exp |-> g] : g \in exps}
    IN  {t \in sums : t.coef # RZero}

\* depth_smoothness()(y_true, y_pred) for one sample
depth_smoothness_keras(yt, yp) ==
    LET img == yt
        inverse_depth == normalize_by_mean(yp)
        inverse_depth_dx == Losses_gradient_x(inverse_depth)
        inverse_depth_dy == Losses_gradient_y(inverse_depth)
        image_dx == Losses_gradient_x(img)
        image_dy == Losses_gradient_y(img)
        weights_x == edge_weights(image_dx)
        weights_y == edge_weights(image_dy)
    IN  ExpAdd(reduce_mean_terms(abs_weighted(inverse_depth_dx, weights_x)),
               reduce_mean_terms(abs_weighted(inverse_depth_dy, weights_y)))

IdleIDN == idn = None /\ idn_x = None /\ idn_out = None

IdlePL == pl = None /\ pl_arg = None /\ pl_in = <<>> /\ pl_out = None

IdleLoss == y_true = <<>> /\ y_pred = <<>> /\ loss_cfg = None /\ loss_out = None

IdleSm == sm_img = <<>> /\ sm_pred = <<>> /\ sm_out = None

IdleReg == reg_arch = {} /\ app = None /\ mt = None

IdleServe == handlers = None

InitIDN ==
    /\ IdleReg
    /\ IdleServe
    /\ \E mn \in DepthChoices, mx \in DepthChoices : idn = IDN_init(mn, mx)
    /\ idn_x = None
    /\ idn_out = None
    /\ IdlePL
    /\ IdleLoss
    /\ IdleSm

IDN_Call(x) ==
    /\ idn_x' = x
    /\ idn_out' = [op |-> "call", depth |-> IDN_call(idn, x)]
    /\ UNCHANGED idn

IDN_GetConfig ==
    /\ idn_out' = [op |-> "get_config", config |-> IDN_get_config(idn)]
    /\ idn_x' = None
    /\ UNCHANGED idn

NextIDN ==
    \/ (\E x \in Disparities : IDN_Call(x)) /\ UNCHANGED <<plVars, lossVars, smVars, regVars, servVars>>
    \/ IDN_GetConfig /\ UNCHANGED <<plVars, lossVars, smVars, regVars, servVars>>

SpecIDN == InitIDN /\ [][NextIDN]_vars

IDN_Called == idn_out # None /\ idn_out.op = "call"

IDN_ValidConfig == RLt(RZero, idn.min_depth) /\ RLt(idn.min_depth, idn.max_depth)

\* C1 (as stated): for 0 < min_depth < max_depth and every x in [0,1], the
\* returned depth lies strictly between min_depth and max_depth.
C1_StrictlyInside ==
    (IDN_Called /\ IDN_ValidConfig) =>
        /\ RLt(idn.min_depth, idn_out.depth)
        /\ RLt(idn_out.depth, idn.max_depth)

\* C1 (amended): the returned depth is 1/(1/max + (1/min - 1/max) x), lies in
\* the closed range [min_depth, max_depth], and lies strictly inside it
\* whenever 0 < x < 1.
C1_InsideClosedStrictInterior ==
    (IDN_Called /\ IDN_ValidConfig) =>
        /\ idn_out.depth =
             RDiv(ROne, RAdd(RDiv(ROne, idn.max_depth),
                             RMul(RSub(RDiv(ROne, idn.min_depth),
                                       RDiv(ROne, idn.max_depth)), idn_x)))
        /\ RLe(idn.min_depth, idn_out.depth)
        /\ RLe(idn_out.depth, idn.max_depth)
        /\ (RLt(RZero, idn_x) /\ RLt(idn_x, ROne)) =>
             (RLt(idn.min_depth, idn_out.depth) /\ RLt(idn_out.depth, idn.max_depth))

C1_Witness ==
    /\ IDN_Called /\ IDN_ValidConfig
    /\ RLt(RZero, idn_x) /\ RLt(idn_x, ROne)
    /\ RLt(idn.min_depth, idn_out.depth) /\ RLt(idn_out.depth, idn.max_depth)

\* C2: for 0 < min_depth < max_depth, call(0) returns max_depth and call(1)
\* returns min_depth.
C2_BoundaryValues ==
    (IDN_Called /\ IDN_ValidConfig) =>
        /\ (idn_x = RZero => idn_out.depth = idn.max_depth)
        /\ (idn_x = ROne => idn_out.depth = idn.min_depth)

C2_Witness ==
    /\ IDN_Called /\ IDN_ValidConfig
    /\ idn_x = ROne
    /\ idn_out.depth = idn.min_depth

(***************************************************************************)
(* ProjectionLayer as a state machine                                      *)
(***************************************************************************)
InitPL ==
    /\ IdleIDN
    /\ IdleReg
    /\ IdleServe
    /\ IdleLoss
    /\ IdleSm
    /\ pl = [state |-> "new"]
    /\ pl_arg = None
    /\ \E src \in Frames, depth \in DepthMaps, pose \in Poses :
          pl_in = <<src, depth, pose>>
    /\ pl_out = None

PL_Constructed == pl.state = "constructed"

\* ProjectionLayer(intrinsics_mat=arg)
PL_Init(arg) ==
    /\ pl.state = "new"
    /\ pl_arg' = [value |-> arg]
    /\ pl' = ProjectionLayer_init(arg)
    /\ UNCHANGED <<pl_in, pl_out>>

\* The framework builds a layer once, before its first call.
PL_Build ==
    /\ PL_Constructed
    /\ ~pl.built
    /\ pl' = ProjectionLayer_build(pl)
    /\ UNCHANGED <<pl_arg, pl_in, pl_out>>

PL_Call ==
    /\ PL_Constructed
    /\ pl.built
    /\ pl_out' = [op |-> "call", value |-> ProjectionLayer_call(pl, pl_in)]
    /\ UNCHANGED <<pl, pl_arg, pl_in>>

PoseShape == <<6>>

PL_InputShape == <<Shape(pl_in[1]), Shape(pl_in[2]), PoseShape>>

PL_ComputeOutputShape ==
    /\ PL_Constructed
    /\ pl_out' = [op |-> "compute_output_shape",
                  value |-> ProjectionLayer_compute_output_shape(PL_InputShape)]
    /\ UNCHANGED <<pl, pl_arg, pl_in>>

PL_GetConfig ==
    /\ PL_Constructed
    /\ pl_out' = [op |-> "get_config", value |-> ProjectionLayer_get_config(pl)]
    /\ UNCHANGED <<pl, pl_arg, pl_in>>

NextPL ==
    \/ (\E arg \in {[mat |-> m] : m \in IntrinsicsChoices} \cup {None} : PL_Init(arg)) /\ UNCHANGED <<idnVars, lossVars, smVars, regVars, servVars>>
    \/ PL_Build /\ UNCHANGED <<idnVars, lossVars, smVars, regVars, servVars>>
    \/ PL_Call /\ UNCHANGED <<idnVars, lossVars, smVars, regVars, servVars>>
    \/ PL_ComputeOutputShape /\ UNCHANGED <<idnVars, lossVars, smVars, regVars, servVars>>
    \/ PL_GetConfig /\ UNCHANGED <<idnVars, lossVars, smVars, regVars, servVars>>

SpecPL == InitPL /\ [][NextPL]_vars

PL_Called == pl_out # None /\ pl_out.op = "call"

\* C3: with the identity pose and a positive depth map the warp returns the
\* source image, pixel for pixel and with the source's shape.
C3_IdentityWarp ==
    (PL_Called /\ pl_in[3] = IdentityPose) =>
        /\ pl_out.value = pl_in[1]
        /\ Shape(pl_out.value) = Shape(pl_in[1])
        /\ ProjectionLayer_compute_output_shape(PL_InputShape) = Shape(pl_out.value)

C3_Witness ==
    /\ PL_Called /\ pl_in[3] = IdentityPose
    /\ pl_in[1] = Frame("checker")
    /\ pl.intrinsics_mat # Identity3
    /\ pl_out.value = pl_in[1]

\* C8: a singular intrinsics matrix makes construction fail with an error, so
\* every constructed ProjectionLayer holds an invertible intrinsics matrix.
C8_SingularFailsFast ==
    /\ (pl_arg # None /\ pl_arg.value # None /\ Det(pl_arg.value.mat) = RZero) =>
          (pl.state = "raised" /\ pl.error = "LinAlgError")
    /\ PL_Constructed => Det(pl.intrinsics_mat) # RZero

C8_Witness ==
    /\ pl_arg # None /\ pl_arg.value # None
    /\ Det(pl_arg.value.mat) = RZero
    /\ pl_arg.value.mat[1][1] # RZero /\ pl_arg.value.mat[2][2] # RZero
    /\ pl.state = "raised"

\* C9: once constructed, no operation changes intrinsics_mat or
\* intrinsics_mat_inv, and intrinsics_mat_inv is always the inverse of
\* intrinsics_mat.
C9_IntrinsicsImmutable ==
    /\ [][PL_Constructed =>
            /\ pl'.intrinsics_mat = pl.intrinsics_mat
            /\ pl'.intrinsics_mat_inv = pl.intrinsics_mat_inv]_vars
    /\ [](PL_Constructed =>
            /\ MatMul(pl.intrinsics_mat, pl.intrinsics_mat_inv) = Identity3
            /\ MatMul(pl.intrinsics_mat_inv, pl.intrinsics_mat) = Identity3)

C9_Witness ==
    /\ PL_Constructed /\ pl.built
    /\ PL_Called
    /\ pl.intrinsics_mat # Identity3
    /\ MatMul(pl.intrinsics_mat, pl.intrinsics_mat_inv) = Identity3

(***************************************************************************)
(* The reprojection loss over one forward pass                             *)
(***************************************************************************)
\* Target frames, and the frames the network emits in y_pred.
TargetFrames == {Frame(pat) : pat \in {"cols", "checker", "tint"}}

SourceFrames == {Frame(pat) : pat \in {"cols", "checker"}}

\* alpha: the default SSIM weight and an even blend.
Alphas == {Rat(17, 20), Rat(1, 2)}

InitLoss ==
    /\ IdleIDN
    /\ IdleReg
    /\ IdleServe
    /\ IdlePL
    /\ IdleSm
    /\ y_true \in TargetFrames
    /\ \E a \in SourceFrames, b \in SourceFrames, c \in SourceFrames, d \in SourceFrames :
          y_pred = ConcatChannels(a, b, c, d)
    /\ loss_cfg = None
    /\ loss_out = None

\* One of the four calls of __ssim in the loss (lines 131, 132, 147, 148):
\* the target against frame k of y_pred.
LS_Ssim(k) ==
    /\ loss_out = None
    /\ loss_out' = [op |-> "ssim", frame |-> k,
                    value |-> Losses_ssim(y_true, SliceChannels(y_pred, 3 * k - 2, 3 * k))]
    /\ UNCHANGED <<y_true, y_pred, loss_cfg>>

\* reprojection_loss(alpha, masking)(y_true, y_pred)
LS_ReprojectionLoss(alpha, masking) ==
    /\ loss_out = None
    /\ loss_cfg' = [alpha |-> alpha, masking |-> masking]
    /\ loss_out' = [op |-> "reprojection_loss",
                    value |-> reprojection_loss_keras(alpha, masking, y_true, y_pred)]
    /\ UNCHANGED <<y_true, y_pred>>

NextLoss ==
    \/ (\E k \in 1..4 : LS_Ssim(k)) /\ UNCHANGED <<idnVars, plVars, smVars, regVars, servVars>>
    \/ (\E alpha \in Alphas, masking \in BOOLEAN : LS_ReprojectionLoss(alpha, masking))
       /\ UNCHANGED <<idnVars, plVars, smVars, regVars, servVars>>

SpecLoss == InitLoss /\ [][NextLoss]_vars

PrevFrame == SliceChannels(y_pred, 1, 3)
NextFrame == SliceChannels(y_pred, 4, 6)
ReprojectionPrev == SliceChannels(y_pred, 7, 9)
ReprojectionNext == SliceChannels(y_pred, 10, 12)

ZeroMap(img) ==
    [i \in 1..Height(img) |-> [j \in 1..Width(img) |-> [ch \in 1..Channels(img) |-> RZero]]]

LS_SsimDone == loss_out # None /\ loss_out.op = "ssim"

LS_LossDone == loss_out # None /\ loss_out.op = "reprojection_loss"

\* C4: the SSIM dissimilarity of an image with itself is 0 at every pixel and
\* has the height and width of the image.
C4_SsimSelfZero ==
    (LS_SsimDone /\ SliceChannels(y_pred, 3 * loss_out.frame - 2, 3 * loss_out.frame) = y_true)
        => /\ loss_out.value = ZeroMap(y_true)
           /\ Height(loss_out.value) = Height(y_true)
           /\ Width(loss_out.value) = Width(y_true)

C4_Witness ==
    /\ LS_SsimDone
    /\ SliceChannels(y_pred, 3 * loss_out.frame - 2, 3 * loss_out.frame) = y_true
    /\ y_true = Frame("checker")
    /\ loss_out.value = ZeroMap(y_true)

\* C5: with masking disabled the loss map is unchanged when reprojection_prev
\* and reprojection_next are exchanged.
C5_ExchangeSymmetric ==
    (LS_LossDone /\ ~loss_cfg.masking) =>
        loss_out.value =
            reprojection_loss_keras(loss_cfg.alpha, FALSE, y_true,
                ConcatChannels(PrevFrame, NextFrame, ReprojectionNext, ReprojectionPrev))

C5_Witness ==
    /\ LS_LossDone /\ ~loss_cfg.masking
    /\ ReprojectionPrev # ReprojectionNext
    /\ ReprojectionPrev # y_true /\ ReprojectionNext # y_true
    /\ loss_out.value # ZeroMap(y_true)

\* C6: with masking enabled, reprojection_prev equal to y_true and source
\* frames different from y_true, the loss is zero at every pixel where the
\* previous-frame reprojection is the minimum branch.
C6_PerfectReprojectionZero ==
    (/\ LS_LossDone /\ loss_cfg.masking
     /\ ReprojectionPrev = y_true
     /\ PrevFrame # y_true /\ NextFrame # y_true) =>
        \A i \in 1..Height(y_true), j \in 1..Width(y_true), ch \in 1..NumChannels :
            (/\ RLe(Losses_ssim(y_true, ReprojectionPrev)[i][j][ch],
                    Losses_ssim(y_true, ReprojectionNext)[i][j][ch])
             /\ RLe(mean_abs_diff(y_true, ReprojectionPrev, i, j),
                    mean_abs_diff(y_true, ReprojectionNext, i, j)))
            => loss_out.value[i][j][ch] = RZero

C6_Witness ==
    /\ LS_LossDone /\ loss_cfg.masking
    /\ ReprojectionPrev = y_true
    /\ ReprojectionNext # y_true
    /\ PrevFrame # y_true /\ NextFrame # y_true
    /\ loss_out.value = ZeroMap(y_true)

\* The blended loss of the two reprojections, and the identically blended
\* loss of the two un-warped source frames, both without masking.
UnmaskedReprojectionLoss ==
    reprojection_loss_keras(loss_cfg.alpha, FALSE, y_true, y_pred)

UnmaskedSourceLoss ==
    reprojection_loss_keras(loss_cfg.alpha, FALSE, y_true,
        ConcatChannels(PrevFrame, NextFrame, PrevFrame, NextFrame))

\* C11: with masking enabled the loss at a pixel is the blended reprojection
\* loss where that is strictly less than the blended loss of the un-warped
\* source frames, and 0 at every other pixel, ties included.
C11_MaskedPerPixel ==
    (LS_LossDone /\ loss_cfg.masking) =>
        \A i \in 1..Height(y_true), j \in 1..Width(y_true), ch \in 1..NumChannels :
            loss_out.value[i][j][ch] =
                IF RLt(UnmaskedReprojectionLoss[i][j][ch], UnmaskedSourceLoss[i][j][ch])
                THEN UnmaskedReprojectionLoss[i][j][ch]
                ELSE RZero

C11_Witness ==
    /\ LS_LossDone /\ loss_cfg.masking
    /\ \E i \in 1..Height(y_true), j \in 1..Width(y_true), ch \in 1..NumChannels :
          /\ RLt(UnmaskedReprojectionLoss[i][j][ch], UnmaskedSourceLoss[i][j][ch])
          /\ loss_out.value[i][j][ch] = UnmaskedReprojectionLoss[i][j][ch]
          /\ loss_out.value[i][j][ch] # RZero
    /\ \E i \in 1..Height(y_true), j \in 1..Width(y_true), ch \in 1..NumChannels :
          /\ UnmaskedReprojectionLoss[i][j][ch] = UnmaskedSourceLoss[i][j][ch]
          /\ UnmaskedReprojectionLoss[i][j][ch] # RZero
          /\ loss_out.value[i][j][ch] = RZero


(***************************************************************************)
(* The depth smoothness loss over one forward pass                         *)
(***************************************************************************)
\* Predicted disparities are non-negative (the network ends in a sigmoid).
DisparityLevels == {RZero, Rat(1, 100), Rat(1, 2), ROne, RInt(3)}

DisparityPatterns == {"const", "cols", "rows", "checker", "dot"}

DisparityFactor(pat, i, j) ==
    CASE pat = "const" -> 1
      [] pat = "cols" -> j
      [] pat = "rows" -> i
      [] pat = "checker" -> (i + j) % 2
      [] pat = "dot" -> IF i = 1 /\ j = 1 THEN 1 ELSE 0

DisparityMap(pat, c) ==
    [i \in 1..ImgH |-> [j \in 1..ImgW |-> <<RMul(RInt(DisparityFactor(pat, i, j)), c)>>]]

DisparityMaps == {DisparityMap(pat, c) : pat \in DisparityPatterns, c \in DisparityLevels}

InitSmooth ==
    /\ IdleIDN
    /\ IdleReg
    /\ IdleServe
    /\ IdlePL
    /\ IdleLoss
    /\ sm_img \in Frames
    /\ sm_pred \in DisparityMaps
    /\ sm_out = None

\* depth_smoothness()(y_true, y_pred)
SM_DepthSmoothness ==
    /\ sm_out = None
    /\ sm_out' = [value |-> depth_smoothness_keras(sm_img, sm_pred)]
    /\ UNCHANGED <<sm_img, sm_pred>>

NextSmooth == SM_DepthSmoothness /\ UNCHANGED <<idnVars, plVars, lossVars, regVars, servVars>>

SpecSmooth == InitSmooth /\ [][NextSmooth]_vars

SM_Done == sm_out # None

SpatiallyConstant(map) ==
    \A i \in 1..Height(map), j \in 1..Width(map) : map[i][j] = map[1][1]

\* C7: whatever the image, the depth smoothness loss of a spatially constant
\* depth map, the all-zero map included, is exactly 0.
C7_ConstantDepthZero ==
    (SM_Done /\ SpatiallyConstant(sm_pred)) => sm_out.value = ExpZero

C7_Witness ==
    /\ SM_Done
    /\ SpatiallyConstant(sm_pred)
    /\ sm_pred[1][1][1] = Rat(1, 2)
    /\ sm_img = Frame("checker")
    /\ sm_out.value = ExpZero

SM_NonConstantPositive ==
    (SM_Done /\ ~SpatiallyConstant(sm_pred)) => sm_out.value # ExpZero

\* The weighted terms of the smoothness loss written out from the pixels of
\* sm_img and sm_pred: the one-channel disparity divided by its mean plus
\* 1e-7, differences between neighbours along x (di = 0, dj = 1) and along y
\* (di = 1, dj = 0), and the exponent of the weight e^(-g).
SM_NormalizedDepth(i, j) ==
    LET W == Width(sm_pred)
        N == Height(sm_pred) * W
        mean == RDiv(RSum([k \in 1..N |-> sm_pred[((k - 1) \div W) + 1][((k - 1) % W) + 1][1]]),
                     RInt(N))
    IN  RDiv(sm_pred[i][j][1], RAdd(mean, SmoothEpsilon))

SM_Term(axis, i, j, di, dj) ==
    [axis |-> axis, i |-> i, j |-> j,
     coef |-> RAbs(RSub(SM_NormalizedDepth(i + di, j + dj), SM_NormalizedDepth(i, j))),
     exp |-> RDiv(RSum([ch \in 1..NumChannels |->
                 RAbs(RSub(sm_img[i + di][j + dj][ch], sm_img[i][j][ch]))]),
                 RInt(NumChannels))]

SM_TermsX ==
    {SM_Term("x", i, j, 0, 1) : i \in 1..Height(sm_pred), j \in 1..(Width(sm_pred) - 1)}

SM_TermsY ==
    {SM_Term("y", i, j, 1, 0) : i \in 1..(Height(sm_pred) - 1), j \in 1..Width(sm_pred)}

RECURSIVE SumCoef(_)
SumCoef(terms) ==
    IF terms = {} THEN RZero
    ELSE LET t == CHOOSE u \in terms : TRUE
         IN  RAdd(t.coef, SumCoef(terms \ {t}))

SM_Exponents == {t.exp : t \in SM_TermsX \cup SM_TermsY}

\* Coefficient of e^(-g) in the mean of the terms of both axes pooled together.
SM_PooledMean(g) ==
    RDiv(SumCoef({t \in SM_TermsX \cup SM_TermsY : t.exp = g}),
         RInt(Cardinality(SM_TermsX \cup SM_TermsY)))

\* Coefficient of e^(-g) in the mean of the x terms plus the mean of the y terms.
SM_SumOfAxisMeans(g) ==
    RAdd(RDiv(SumCoef({t \in SM_TermsX : t.exp = g}), RInt(Cardinality(SM_TermsX))),
         RDiv(SumCoef({t \in SM_TermsY : t.exp = g}), RInt(Cardinality(SM_TermsY))))

\* C12 as stated: the smoothness scalar is the mean, over the pixels of both
\* axes together, of the terms |depth gradient| * exp(-mean over channels of
\* |image gradient|).
C12_MeanOverBothAxes ==
    SM_Done =>
        sm_out.value =
            {t \in {[coef |-> SM_PooledMean(g), exp |-> g] : g \in SM_Exponents} :
                t.coef # RZero}

\* C12 as amended: the smoothness scalar is the mean of those terms over the
\* pixels of the x axis plus their mean over the pixels of the y axis.
C12_SumOfAxisMeans ==
    SM_Done =>
        sm_out.value =
            {t \in {[coef |-> SM_SumOfAxisMeans(g), exp |-> g] : g \in SM_Exponents} :
                t.coef # RZero}

C12_Witness ==
    /\ SM_Done
    /\ ~SpatiallyConstant(sm_pred)
    /\ \E t \in SM_TermsX : t.coef # RZero /\ t.exp # RZero
    /\ \E t \in SM_TermsY : t.coef # RZero
    /\ Cardinality(sm_out.value) >= 2

(***************************************************************************)
(* The custom-object registry of the two scripts that reload a model       *)
(*                                                                         *)
(* A statement is modelled by the global names and attributes it looks up, *)
(* in evaluation order, and by its effect when every lookup succeeds.      *)
(***************************************************************************)
\* Requests the server is followed through once it is serving.
MaxRequests == 2

\* What `from project import *` binds: the warper and the modules it imports.
project_exports == {"np", "tf", "inverse_warp"}

\* Public module-level names of custom_modules.py (there is no __all__, so
\* `import *` takes every such name, imported modules included).
custom_modules_globals ==
    {"tf", "K", "Layer", "json", "ProjectionLayer", "ReflectionPadding2D",
     "InverseDepthNormalization", "Losses", "NumpyEncoder"} \cup project_exports

\* Attributes defined by class Losses; the private ones are name-mangled.
Losses_attributes ==
    {"reprojection_loss", "depth_smoothness", "_Losses__ssim",
     "_Losses__gradient_x", "_Losses__gradient_y"}

builtins == {"open", "print", "float", "Exception"}

\* Global scope of food_volume_estimation_app.py once its module body has run.
app_globals ==
    {"argparse", "np", "cv2", "tf", "Model", "model_from_json", "VolumeEstimator",
     "DensityDatabase", "FoodSegmentator", "Flask", "request", "jsonify",
     "make_response", "abort", "base64", "app", "estimator",
     "load_volume_estimator", "volume_estimation"}
    \cup custom_modules_globals \cup builtins

\* Global scope of model_tests.py once its module body has run.
model_tests_globals ==
    {"argparse", "np", "pd", "model_from_json", "pre", "plt", "json", "ModelTests"}
    \cup custom_modules_globals \cup builtins

Name(id) == [of |-> "globals", id |-> id]

Attribute(class, id) == [of |-> class, id |-> id]

Names(ids) == [k \in DOMAIN ids |-> Name(ids[k])]

\* The dict display `objs = {...}` of load_volume_estimator: key and looked-up
\* value of every entry, in source order.
load_volume_estimator_objs ==
    <<[key |-> "ProjectionLayer", value |-> Name("ProjectionLayer")],
      [key |-> "ReflectionPadding2D", value |-> Name("ReflectionPadding2D")],
      [key |-> "InverseDepthNormalization", value |-> Name("InverseDepthNormalization")],
      [key |-> "AugmentationLayer", value |-> Name("AugmentationLayer")],
      [key |-> "compute_source_loss", value |-> Attribute("Losses", "compute_source_loss")]>>

\* The dict display `objs = {...}` of ModelTests.__init__.
ModelTests_init_objs ==
    <<[key |-> "ProjectionLayer", value |-> Name("ProjectionLayer")],
      [key |-> "ReflectionPadding2D", value |-> Name("ReflectionPadding2D")],
      [key |-> "InverseDepthNormalization", value |-> Name("InverseDepthNormalization")],
      [key |-> "AugmentationLayer", value |-> Name("AugmentationLayer")]>>

Values(objs) == [k \in DOMAIN objs |-> objs[k].value]

Keys(objs) == {objs[k].key : k \in DOMAIN objs}

NoError == [type |-> "none", name |-> ""]

\* A global name resolves in the module's scope (builtins included), an
\* attribute of a Losses instance in the class.
Resolves(lookup, globals) ==
    IF lookup.of = "globals" THEN lookup.id \in globals
    ELSE lookup.id \in Losses_attributes

\* The exception raised by the first lookup that fails, or NoError.
first_lookup_error(lookups, globals) ==
    LET failed == {k \in DOMAIN lookups : ~Resolves(lookups[k], globals)}
        k0 == CHOOSE k \in failed : \A l \in failed : k <= l
    IN  IF failed = {} THEN NoError
        ELSE [type |-> IF lookups[k0].of = "globals" THEN "NameError"
                       ELSE "AttributeError",
              name |-> lookups[k0].id]

\* Layer classes Keras itself knows.
keras_layers == {"Conv2D"}

\* model_from_json(..., custom_objects=objs): every class the architecture
\* names has to be a Keras layer or a key of objs.
model_from_json_error(arch, objs) ==
    IF arch \subseteq (objs \cup keras_layers) THEN NoError
    ELSE [type |-> "ValueError", name |-> "Unknown layer"]

Raise(self, error) == [self EXCEPT !.pc = "raised", !.error = error]

\* One statement group: raise the first failed lookup, else take the effect.
Execute(self, lookups, globals, effect) ==
    LET error == first_lookup_error(lookups, globals)
    IN  IF error # NoError THEN Raise(self, error) ELSE effect

\* food_volume_estimation_app.py run as a script: the __main__ block, the body
\* of load_volume_estimator, app.run and the requests it then serves.
food_volume_estimation_app_step(self, arch) ==
    CASE self.pc = "main" ->
            Execute(self, Names(<<"argparse", "load_volume_estimator">>), app_globals,
                    [self EXCEPT !.pc = "load_volume_estimator"])
      [] self.pc = "load_volume_estimator" ->
            Execute(self, Names(<<"VolumeEstimator", "open", "Losses">>), app_globals,
                    [self EXCEPT !.pc = "custom_objects", !.estimator = "created"])
      [] self.pc = "custom_objects" ->
            Execute(self, Values(load_volume_estimator_objs), app_globals,
                    [self EXCEPT !.pc = "model_from_json",
                                 !.objs = Keys(load_volume_estimator_objs)])
      [] self.pc = "model_from_json" ->
            Execute(self, Names(<<"json", "model_from_json">>), app_globals,
                    IF model_from_json_error(arch, self.objs) # NoError
                    THEN Raise(self, model_from_json_error(arch, self.objs))
                    ELSE [self EXCEPT !.pc = "load_weights", !.estimator = "monovideo"])
      [] self.pc = "load_weights" ->
            Execute(self, Names(<<"Model", "print", "FoodSegmentator", "tf">>), app_globals,
                    [self EXCEPT !.pc = "app_run", !.estimator = "loaded"])
      [] self.pc = "app_run" ->
            Execute(self, Names(<<"app">>), app_globals, [self EXCEPT !.pc = "serving"])
      [] self.pc = "serving" ->
            [self EXCEPT !.served = @ + 1]

\* model_tests.py run as a script: ModelTests() and the body of __init__.
model_tests_step(self, arch) ==
    CASE self.pc = "main" ->
            Execute(self, Names(<<"ModelTests">>), model_tests_globals,
                    [self EXCEPT !.pc = "parse_args"])
      [] self.pc = "parse_args" ->
            Execute(self, Names(<<"argparse">>), model_tests_globals,
                    [self EXCEPT !.pc = "custom_objects"])
      [] self.pc = "custom_objects" ->
            Execute(self, Values(ModelTests_init_objs), model_tests_globals,
                    [self EXCEPT !.pc = "model_from_json",
                                 !.objs = Keys(ModelTests_init_objs)])
      [] self.pc = "model_from_json" ->
            Execute(self, Names(<<"open", "json", "model_from_json">>), model_tests_globals,
                    IF model_from_json_error(arch, self.objs) # NoError
                    THEN Raise(self, model_from_json_error(arch, self.objs))
                    ELSE [self EXCEPT !.pc = "load_weights", !.estimator = "test_model"])
      [] self.pc = "load_weights" ->
            Execute(self, Names(<<"pd">>), model_tests_globals,
                    [self EXCEPT !.pc = "constructed", !.estimator = "loaded"])

\* Custom classes a persisted architecture may name, next to Keras layers.
ArchitectureClasses ==
    {"ProjectionLayer", "ReflectionPadding2D", "InverseDepthNormalization",
     "AugmentationLayer"} \cup keras_layers

NewProcess ==
    [pc |-> "main", estimator |-> "None", objs |-> {}, error |-> NoError, served |-> 0]

InitReg ==
    /\ IdleIDN
    /\ IdlePL
    /\ IdleLoss
    /\ IdleSm
    /\ IdleServe
    /\ reg_arch \in SUBSET ArchitectureClasses
    /\ app = NewProcess
    /\ mt = NewProcess

APP_Step ==
    /\ app.pc # "raised"
    /\ app.served < MaxRequests
    /\ app' = food_volume_estimation_app_step(app, reg_arch)
    /\ UNCHANGED <<reg_arch, mt>>

MT_Step ==
    /\ mt.pc \notin {"raised", "constructed"}
    /\ mt' = model_tests_step(mt, reg_arch)
    /\ UNCHANGED <<reg_arch, app>>

NextReg ==
    \/ APP_Step /\ UNCHANGED <<idnVars, plVars, lossVars, smVars, servVars>>
    \/ MT_Step /\ UNCHANGED <<idnVars, plVars, lossVars, smVars, servVars>>

SpecReg == InitReg /\ [][NextReg]_vars

LookupErrors == {"NameError", "AttributeError"}

\* C10: every identifier placed in the custom-object registries resolves, so
\* neither script ends in a failed name or attribute lookup, and the server
\* has loaded the estimator before it serves a /predict request.
C10_RegistryResolves ==
    /\ app.error.type \notin LookupErrors
    /\ mt.error.type \notin LookupErrors
    /\ (app.served > 0 => app.estimator = "loaded")

(***************************************************************************)
(* The /predict handler of the serving process                             *)
(*                                                                         *)
(* app.run serves every request on a thread of its own, so the handler is  *)
(* followed statement group by statement group, one request per thread.    *)
(***************************************************************************)
\* Server threads handling requests at the same time.
Threads == {"t1", "t2"}

\* Food regions the estimator finds in a decodable image: none, one or two.
RegionCounts == {0, 1, 2}

Missing == [type |-> "missing"]

JsonNumber(q) == [type |-> "number", value |-> q]

\* A JSON string, as the sequence of its characters.
JsonString(chars) == [type |-> "string", text |-> chars]

\* The 'img' member: a JSON string that base64 accepts or not, whose bytes
\* OpenCV decodes or not, showing `regions` food regions when it does.
ImgPayloads ==
    {Missing,
     [type |-> "string", base64 |-> FALSE, image |-> FALSE, regions |-> 0],
     [type |-> "string", base64 |-> TRUE, image |-> FALSE, regions |-> 0]}
    \cup {[type |-> "string", base64 |-> TRUE, image |-> TRUE, regions |-> n] :
            n \in RegionCounts}

PlateDiameters ==
    {Missing, JsonString(<<"a", "b">>), JsonString(<<>>), JsonString(<<"2", "4">>),
     JsonNumber(Rat(6, 25))}

Fovs == {Missing, JsonNumber(RInt(60))}

\* Request bodies: no JSON at all, a JSON array, or a JSON object.
RequestBodies ==
    {[json |-> "none"], [json |-> "array"]}
    \cup {[json |-> "object", img |-> i, plate_diameter |-> d, fov |-> f] :
            i \in ImgPayloads, d \in PlateDiameters, f \in Fovs}

\* request.json: the parsed body, or None when the request carries no JSON.
request_json(body) == IF body.json = "none" THEN None ELSE body

\* content[key]: TypeError on None and on a list indexed by a string,
\* KeyError when the object lacks the key.
subscript(content, key) ==
    IF content = None \/ content.json # "object" THEN [raised |-> "TypeError"]
    ELSE IF content[key] = Missing THEN [raised |-> "KeyError"]
    ELSE [raised |-> "no", value |-> content[key]]

\* content.get(key, default)
dict_get(content, key, default) ==
    IF content[key] = Missing THEN default ELSE content[key].value

Digits == <<"0", "1", "2", "3", "4", "5", "6", "7", "8", "9">>

DigitValue(c) == (CHOOSE k \in DOMAIN Digits : Digits[k] = c) - 1

IsDigit(c) == \E k \in DOMAIN Digits : Digits[k] = c

RECURSIVE ParseDigits(_)
ParseDigits(chars) ==
    IF chars = <<>> THEN 0
    ELSE 10 * ParseDigits(SubSeq(chars, 1, Len(chars) - 1)) + DigitValue(chars[Len(chars)])

\* float(v): a number as it is, a string of digits parsed, ValueError on any
\* other string.
python_float(v) ==
    IF v.type = "number" THEN [raised |-> "no", value |-> v.value]
    ELSE IF v.text # <<>> /\ \A k \in DOMAIN v.text : IsDigit(v.text[k])
         THEN [raised |-> "no", value |-> RInt(ParseDigits(v.text))]
         ELSE [raised |-> "ValueError"]

decode_image_unchecked(content) ==
    LET img_encoded == subscript(content, "img")
    IN  IF img_encoded.raised # "no" THEN [raised |-> img_encoded.raised]
        ELSE IF ~img_encoded.value.base64 THEN [raised |-> "binascii.Error"]
        ELSE [raised |-> "no", img |-> img_encoded.value]

\* The first try block (lines 74-86): content['img'], base64.b64decode,
\* np.frombuffer, cv2.imdecode, which returns None for bytes that are no
\* image, and cv2.cvtColor, which raises on None.
decode_image(content) ==
    LET img_encoded == subscript(content, "img")
    IN  IF img_encoded.raised # "no" THEN [raised |-> img_encoded.raised]
        ELSE IF ~img_encoded.value.base64 THEN [raised |-> "binascii.Error"]
        ELSE IF ~img_encoded.value.image THEN [raised |-> "cv2.error"]
        ELSE [raised |-> "no", img |-> img_encoded.value]

plate_diameter_or_one(content) ==
    LET d == subscript(content, "plate_diameter")
    IN  IF d.raised # "no" THEN ROne
        ELSE IF python_float(d.value).raised # "no" THEN ROne
        ELSE python_float(d.value).value

\* The second try block (lines 90-93): float(content['plate_diameter']), and
\* 0 on any exception.
plate_diameter_or_zero(content) ==
    LET d == subscript(content, "plate_diameter")
    IN  IF d.raised # "no" THEN RZero
        ELSE IF python_float(d.value).raised # "no" THEN RZero
        ELSE python_float(d.value).value

\* VolumeEstimator.estimate_volume: one volume, in cubic metres, per food
\* region of the image.
estimate_volume(img, fov, plate_diameter_prior) ==
    [k \in 1..img.regions |-> Rat(k, 4000)]

convert_to_mL_once(volumes) == [k \in DOMAIN volumes |-> RMul(volumes[k], RInt(1000))]

\* volumes = [v * 1e6 for v in volumes]
convert_to_mL(volumes) == [k \in DOMAIN volumes |-> RMul(volumes[k], RInt(1000000))]

IdleHandler ==
    [pc |-> "idle", body |-> None, content |-> None, img |-> None,
     plate_diameter |-> RZero, call |-> None, volumes |-> <<>>,
     status |-> 0, response |-> <<>>]

\* The process once load_volume_estimator has returned and app.run is serving.
LoadedApp ==
    [pc |-> "serving", estimator |-> "loaded", objs |-> Keys(load_volume_estimator_objs),
     error |-> NoError, served |-> 0]

InitServe ==
    /\ IdleIDN
    /\ IdlePL
    /\ IdleLoss
    /\ IdleSm
    /\ reg_arch = {}
    /\ mt = None
    /\ app = LoadedApp
    /\ handlers = [t \in Threads |-> IdleHandler]

\* A POST to /predict is dispatched to a free thread.
HD_Receive(t, body) ==
    /\ app.pc = "serving"
    /\ app.served < MaxRequests
    /\ handlers[t].pc \in {"idle", "done"}
    /\ handlers' = [handlers EXCEPT ![t] = [IdleHandler EXCEPT !.pc = "decode", !.body = body]]
    /\ app' = [app EXCEPT !.served = @ + 1]
    /\ UNCHANGED <<reg_arch, mt>>

\* Lines 74-86: decode the image, abort(406) on any exception.
HD_Decode(t) ==
    /\ handlers[t].pc = "decode"
    /\ LET content == request_json(handlers[t].body)
           decoded == IF content = None THEN [raised |-> "TypeError"]
                      ELSE decode_image(content)
       IN  handlers' = [handlers EXCEPT ![t] =
               IF decoded.raised # "no"
               THEN [@ EXCEPT !.pc = "done", !.status = 406]
               ELSE [@ EXCEPT !.pc = "plate_diameter", !.content = content,
                              !.img = decoded.img]]
    /\ UNCHANGED regVars

\* Lines 90-93
HD_PlateDiameter(t) ==
    /\ handlers[t].pc = "plate_diameter"
    /\ handlers' = [handlers EXCEPT ![t] =
           [@ EXCEPT !.pc = "graph",
                     !.plate_diameter = plate_diameter_or_zero(handlers[t].content)]]
    /\ UNCHANGED regVars

\* Lines 96-98: graph.as_default() makes the loaded graph the default of this
\* thread and waits for nothing; estimate_volume is entered.
HD_CallEstimate(t) ==
    /\ handlers[t].pc = "graph"
    /\ handlers' = [handlers EXCEPT ![t] =
           [@ EXCEPT !.pc = "estimate_volume",
                     !.call = [img |-> handlers[t].img,
                               fov |-> dict_get(handlers[t].content, "fov", RInt(70)),
                               plate_diameter_prior |-> handlers[t].plate_diameter]]]
    /\ UNCHANGED regVars

\* estimate_volume returns and the with block is left.
HD_EstimateReturns(t) ==
    /\ handlers[t].pc = "estimate_volume"
    /\ handlers' = [handlers EXCEPT ![t] =
           [@ EXCEPT !.pc = "respond",
                     !.volumes = estimate_volume(handlers[t].call.img, handlers[t].call.fov,
                                                 handlers[t].call.plate_diameter_prior)]]
    /\ UNCHANGED regVars

\* Lines 100-106
HD_Respond(t) ==
    /\ handlers[t].pc = "respond"
    /\ handlers' = [handlers EXCEPT ![t] =
           [@ EXCEPT !.pc = "done", !.status = 200,
                     !.response = convert_to_mL(handlers[t].volumes)]]
    /\ UNCHANGED regVars

NextServe ==
    \/ (\E t \in Threads, body \in RequestBodies : HD_Receive(t, body))
       /\ UNCHANGED <<idnVars, plVars, lossVars, smVars>>
    \/ (\E t \in Threads : HD_Decode(t)) /\ UNCHANGED <<idnVars, plVars, lossVars, smVars>>
    \/ (\E t \in Threads : HD_PlateDiameter(t)) /\ UNCHANGED <<idnVars, plVars, lossVars, smVars>>
    \/ (\E t \in Threads : HD_CallEstimate(t)) /\ UNCHANGED <<idnVars, plVars, lossVars, smVars>>
    \/ (\E t \in Threads : HD_EstimateReturns(t)) /\ UNCHANGED <<idnVars, plVars, lossVars, smVars>>
    \/ (\E t \in Threads : HD_Respond(t)) /\ UNCHANGED <<idnVars, plVars, lossVars, smVars>>

SpecServe == InitServe /\ [][NextServe]_vars

\* C13: requests handled concurrently never are inside
\* estimator.estimate_volume at the same time.
C13_EstimateSerialized ==
    \A t1 \in Threads, t2 \in Threads :
        (handlers[t1].pc = "estimate_volume" /\ handlers[t2].pc = "estimate_volume")
            => t1 = t2

\* A body the first try block gets an image out of.
Decodable(body) ==
    /\ body.json = "object"
    /\ body.img # Missing
    /\ body.img.base64
    /\ body.img.image

NonNumeric(v) == v \in {Missing, JsonString(<<"a", "b">>), JsonString(<<>>)}

====
